---- MODULE Spec2Model ----
(***************************************************************************)
(* Inventory service: the stock-decrement transaction of app/main.py      *)
(* (decrease_stock), the identity dependencies of app/auth/dependencies.py *)
(* (get_current_user, get_current_admin_user), the shipping notifier      *)
(* (send_shipping_confirmation), the GET readers and the administrative   *)
(* handlers (create_products, delete_products, increase_stock), run by    *)
(* concurrent request tasks against one PostgreSQL table `products`       *)
(* (READ COMMITTED, row locks).                                           *)
(***************************************************************************)
EXTENDS Integers, Sequences, FiniteSets, TLC

\* ------------------------------------------------------------------ bounds
MaxStock == 2
MaxQty == 2
MaxLen == 2

\* ------------------------------------------------------------- the domain
Tasks == {"t1", "t2"}
Admins == {"a1", "a2"}
Products == {"A", "B"}
Codes == Products \cup {"Z"}
Quantities == (0 - 1)..MaxQty
Items == [productCode : Codes, quantity : Quantities]

\* what the iteration over request.items yields after n entries: the end of
\* the list, or one more entry
Draws(n) == {<<>>} \cup (IF n < MaxLen THEN {<<i>> : i \in Items} ELSE {})

\* JWT bearer tokens as jwt.decode sees them: a signature state and a payload
TokAdmin == [sig |-> "ok", payload |-> [sub |-> "u1", email |-> "m1", role |-> {"admin"}]]
TokUser == [sig |-> "ok", payload |-> [sub |-> "u2", email |-> "m2"]]
TokNoEmail == [sig |-> "ok", payload |-> [sub |-> "u3"]]
TokExpired == [sig |-> "expired", payload |-> [sub |-> "u2", email |-> "m2"]]
TokInvalid == [sig |-> "invalid", payload |-> [sub |-> "u2", email |-> "m2"]]
Tokens == {TokAdmin, TokUser, TokNoEmail, TokExpired, TokInvalid}

\* the rows of table products when the service starts
InitStock == [p \in Products |-> IF p = "A" THEN MaxStock ELSE MaxStock - 1]

\* values of the X-Override-Key header and of the environment variable
\* OVERRIDE_KEY: None (header absent, variable unset), the empty string, keys
NoKey == "None"
Keys == {NoKey, "", "k1", "k2"}
ConfiguredKeys == {NoKey, "", "k1"}

NoUser == [anonymous |-> TRUE]
NoResponse == [status |-> 0, detail |-> "none", body |-> <<>>]

VARIABLES
    stock,             \* committed rows of table products: sku -> stock
    locks,             \* locks[t]: rows whose exclusive row lock t's transaction holds
    writes,            \* writes[t]: uncommitted row versions of t's transaction
    pc,                \* position of each request task
    user,              \* the dict get_current_user returned for the request
    batch,             \* request.items, as far as the for loop has iterated over it
    idx,               \* position of the for loop in request.items (1-based)
    row,               \* last row fetched by SELECT .. FOR UPDATE: <<>> or <<stock>>
    updated_products,  \* local list of decrease_stock
    shipped_info,      \* local list of decrease_stock
    err,               \* exception in flight / raised by the handler
    response,          \* HTTP response delivered to the caller
    notices,           \* notices[t]: shipped_info lists posted to the shipping service
    updates,           \* history: UPDATE statements t's transaction has executed
    base,              \* history: committed stock at the start of t's batch,
                       \* brought forward by the commits of the other batches
    sold,              \* history: per product, the quantities of the committed batches
    added,             \* history: per product, the quantities of the increases made
    seen,              \* rows in the last response of a GET /inventory reader
    seenSold,          \* history: `sold` when that reader ran its SELECT
    seenDuring,        \* history: a batch had unseen uncommitted writes at that time
    OVERRIDE_KEY,      \* dependencies.py line 11: os.getenv("OVERRIDE_KEY")
    admin_pc,          \* position of each task that runs an administrative handler
    request,           \* the entry of the request body the handler is at: <<>> or <<entry>>
    iterated,          \* number of entries of the request body it has iterated over
    admin_row,         \* the row increase_stock fetched: <<>> or <<stock>>
    admin_response,    \* HTTP response delivered to its caller
    entitled,          \* history: its caller had the admin role or the override key
    changed            \* history: rows it has inserted, deleted or updated

vars == <<stock, locks, writes, pc, user, batch, idx, row, updated_products,
          shipped_info, err, response, notices, updates, base, sold, added,
          seen, seenSold, seenDuring,
          OVERRIDE_KEY, admin_pc, request, iterated, admin_row, admin_response, entitled, changed>>

\* the state of the administrative handlers
admin == <<OVERRIDE_KEY, admin_pc, request, iterated, admin_row, admin_response, entitled, changed>>

\* what the stock-decrement transaction never touches
aux == <<added, seen, seenSold, seenDuring, admin>>

\* ------------------------------------------------------- pure definitions

\* dependencies.py get_current_user: the user dict, or the 401 it raises
get_current_user(token) ==
    IF token.sig = "expired" THEN [ok |-> FALSE, detail |-> "Token har gatt ut"]
    ELSE IF token.sig # "ok" THEN [ok |-> FALSE, detail |-> "Kunde inte validera"]
    ELSE IF ~({"sub", "email"} \subseteq DOMAIN token.payload)
         THEN [ok |-> FALSE, detail |-> "Kunde inte validera"]
    ELSE [ok |-> TRUE,
          user |-> [user_id |-> token.payload.sub,
                    email |-> token.payload.email,
                    role |-> IF "role" \in DOMAIN token.payload
                             THEN token.payload.role ELSE {}]]

\* app.utils.ensure_valid_quantity: TRUE when it raises
ensure_valid_quantity(quantity) == quantity <= 0

\* a plain SELECT, which takes no row lock
SelectWithoutLock == FALSE

\* the statement "SELECT .. FOR UPDATE" takes the row lock (main.py line 151)
SelectLocks == TRUE

\* row locks that exclude nobody
LockExcludesNobody(t, sku) == FALSE

\* rows locked by a transaction other than t's
LockedByOther(t, sku) == \E u \in Tasks \ {t} : sku \in locks[u]

\* a read that ignores the transaction's own uncommitted writes
VisibleCommitted(t, sku) == IF sku \in DOMAIN stock THEN <<stock[sku]>> ELSE <<>>

\* the row version t's transaction sees: its own uncommitted write, else the
\* committed row (READ COMMITTED)
Visible(t, sku) ==
    IF sku \in DOMAIN writes[t] THEN <<writes[t][sku]>>
    ELSE IF sku \in DOMAIN stock THEN <<stock[sku]>>
    ELSE <<>>

\* the entry checks with the quantity validated before the row is looked at
CheckItemQuantityFirst(r, item) ==
    IF ensure_valid_quantity(item.quantity) THEN "InvalidQuantity"
    ELSE IF r = <<>> THEN "NotFound"
    ELSE IF r[1] < item.quantity THEN "InsufficientStock"
    ELSE "none"

\* the entry checks without the call of ensure_valid_quantity
CheckItemUnvalidated(r, item) ==
    IF r = <<>> THEN "NotFound"
    ELSE IF r[1] < item.quantity THEN "InsufficientStock"
    ELSE "none"

\* main.py lines 153-157: the exception the checks of one entry raise
CheckItem(r, item) ==
    IF r = <<>> THEN "NotFound"
    ELSE IF ensure_valid_quantity(item.quantity) THEN "InvalidQuantity"
    ELSE IF r[1] < item.quantity THEN "InsufficientStock"
    ELSE "none"

\* a failed check that leaves the loop (break) instead of raising
AfterCheckBreak(e) == IF e = "none" THEN "update" ELSE "notify"

\* where an exception of the entry checks leaves the handler
AfterCheck(e) == IF e = "none" THEN "update" ELSE "raise"

\* FastAPI's translation of the exception that left the handler
StatusOf(e) ==
    CASE e = "NotFound" -> 404
      [] e = "InvalidQuantity" -> 400
      [] e = "InsufficientStock" -> 400
      [] e = "CancelledError" -> 0
      [] OTHER -> 500

\* total quantity of product sku in a shipped_info list
RECURSIVE Shipped(_, _)
Shipped(info, sku) ==
    IF info = <<>> THEN 0
    ELSE (IF info[1].productCode = sku THEN info[1].quantity ELSE 0)
         + Shipped(Tail(info), sku)

\* a commit that leaves the table with the rows the transaction wrote
CommitWrittenRows(t) == writes[t]

\* committed rows after t's transaction ends
CommitRows(t) ==
    [s \in DOMAIN stock |-> IF s \in DOMAIN writes[t] THEN writes[t][s] ELSE stock[s]]
\* a rollback that keeps the transaction's writes
RollbackKeepsWrites(t) == CommitRows(t)

RollbackRows(t) == stock

\* --------------------------------------------------------------- the state
Start ==
    /\ stock = InitStock
    /\ locks = [t \in Tasks |-> {}]
    /\ writes = [t \in Tasks |-> <<>>]
    /\ pc = [t \in Tasks |-> "idle"]
    /\ user = [t \in Tasks |-> NoUser]
    /\ batch = [t \in Tasks |-> <<>>]
    /\ idx = [t \in Tasks |-> 1]
    /\ row = [t \in Tasks |-> <<>>]
    /\ updated_products = [t \in Tasks |-> <<>>]
    /\ shipped_info = [t \in Tasks |-> <<>>]
    /\ err = [t \in Tasks |-> "none"]
    /\ response = [t \in Tasks |-> NoResponse]
    /\ notices = [t \in Tasks |-> <<>>]
    /\ updates = [t \in Tasks |-> 0]
    /\ base = [t \in Tasks |-> stock]
    /\ sold = [p \in Products |-> 0]
    /\ added = [p \in Products |-> 0]
    /\ seen = <<>>
    /\ seenSold = sold
    /\ seenDuring = FALSE
    /\ admin_pc = [a \in Admins |-> "idle"]
    /\ request = [a \in Admins |-> <<>>]
    /\ iterated = [a \in Admins |-> 0]
    /\ admin_row = [a \in Admins |-> <<>>]
    /\ admin_response = [a \in Admins |-> [status |-> 0, detail |-> "none"]]
    /\ entitled = [a \in Admins |-> FALSE]
    /\ changed = [a \in Admins |-> 0]

\* the service started without OVERRIDE_KEY in its environment
Init == Start /\ OVERRIDE_KEY = NoKey

\* ----------------------------------------------------------------- actions

\* the handler's frame is gone once the response is out
DropFrame(t) ==
    /\ user' = [user EXCEPT ![t] = NoUser]
    /\ batch' = [batch EXCEPT ![t] = <<>>]
    /\ idx' = [idx EXCEPT ![t] = 1]
    /\ row' = [row EXCEPT ![t] = <<>>]
    /\ updated_products' = [updated_products EXCEPT ![t] = <<>>]
    /\ shipped_info' = [shipped_info EXCEPT ![t] = <<>>]
    /\ err' = [err EXCEPT ![t] = "none"]

\* POST /inventory/decrease arrives with a bearer token and a body whose items
\* start with `first`: the dependency get_current_user runs and the handler
\* enters `async with database.transaction()` (main.py 143-150)
Request(t, token, first) ==
    /\ pc[t] = "idle"
    /\ LET auth == get_current_user(token) IN
       IF auth.ok
       THEN /\ user' = [user EXCEPT ![t] = auth.user]
            /\ batch' = [batch EXCEPT ![t] = first]
            /\ base' = [base EXCEPT ![t] = stock]
            /\ pc' = [pc EXCEPT ![t] = IF first = <<>> THEN "notify" ELSE "select"]
            /\ UNCHANGED response
       ELSE /\ response' = [response EXCEPT ![t] =
                              [status |-> 401, detail |-> "Unauthorized", body |-> <<>>]]
            /\ pc' = [pc EXCEPT ![t] = "done"]
            /\ UNCHANGED <<user, batch, base>>
    /\ UNCHANGED <<stock, locks, writes, idx, row, updated_products, shipped_info,
                   err, notices, updates, sold, aux>>

decrease_stock(t) == \E token \in Tokens, first \in Draws(0) : Request(t, token, first)

\* main.py 151-157: SELECT .. FOR UPDATE of the entry's row, then the checks
SelectForUpdate(t) ==
    /\ pc[t] = "select"
    /\ LET item == batch[t][idx[t]]
           sku == item.productCode
           r == Visible(t, sku)
           e == CheckItem(r, item)
       IN  /\ SelectLocks => ~LockedByOther(t, sku)
           /\ locks' = [locks EXCEPT ![t] =
                          IF SelectLocks /\ r # <<>> THEN @ \cup {sku} ELSE @]
           /\ row' = [row EXCEPT ![t] = r]
           /\ err' = [err EXCEPT ![t] = e]
           /\ pc' = [pc EXCEPT ![t] = AfterCheck(e)]
    /\ UNCHANGED <<stock, writes, user, batch, idx, updated_products, shipped_info,
                   response, notices, updates, base, sold, aux>>

\* main.py 158-165 and the loop head 150: UPDATE .. SET stock = stock -
\* :quantity RETURNING, the two appends, and the next entry of request.items
\* (`more`). The UPDATE takes the row lock itself and waits for it.
UpdateStep(t, more) ==
    /\ pc[t] = "update"
    /\ LET item == batch[t][idx[t]]
           sku == item.productCode
           cur == Visible(t, sku)
           new == cur[1] - item.quantity
       IN  /\ ~LockedByOther(t, sku)
           /\ cur # <<>>
           /\ locks' = [locks EXCEPT ![t] = @ \cup {sku}]
           /\ writes' = [writes EXCEPT ![t] =
                           [s \in DOMAIN @ \cup {sku} |-> IF s = sku THEN new ELSE @[s]]]
           /\ updated_products' = [updated_products EXCEPT ![t] =
                                     Append(@, [productCode |-> sku, stock |-> new])]
           /\ shipped_info' = [shipped_info EXCEPT ![t] = Append(@, item)]
           /\ idx' = [idx EXCEPT ![t] = @ + 1]
           /\ updates' = [updates EXCEPT ![t] = @ + 1]
           /\ batch' = [batch EXCEPT ![t] = @ \o more]
           /\ pc' = [pc EXCEPT ![t] = IF more = <<>> THEN "notify" ELSE "select"]
    /\ UNCHANGED <<stock, user, row, err, response, notices, base, sold, aux>>

Update(t) == \E more \in Draws(Len(batch[t])) : UpdateStep(t, more)

\* main.py 175-202: requests.post to the shipping service; "exception" is a
\* transport error raised by requests.post, which nothing catches
send_shipping_confirmation(outcome) == IF outcome = "exception" THEN "ConnectionError" ELSE "none"

\* main.py 166-167: the notification step, still inside the transaction
\* block. user["token"] is evaluated before the call.
Notify(t) ==
    /\ pc[t] = "notify"
    /\ IF "admin" \in user[t].role
       THEN /\ pc' = [pc EXCEPT ![t] = "commit"]
            /\ UNCHANGED <<err, notices>>
       ELSE IF "token" \notin DOMAIN user[t]
       THEN /\ err' = [err EXCEPT ![t] = "KeyError"]
            /\ pc' = [pc EXCEPT ![t] = "raise"]
            /\ UNCHANGED notices
       ELSE \E outcome \in {"200", "non200", "exception"} :
            LET e == send_shipping_confirmation(outcome) IN
            /\ notices' = [notices EXCEPT ![t] = Append(@, shipped_info[t])]
            /\ err' = [err EXCEPT ![t] = e]
            /\ pc' = [pc EXCEPT ![t] = IF e = "none" THEN "commit" ELSE "raise"]
    /\ UNCHANGED <<stock, locks, writes, user, batch, idx, row, updated_products,
                   shipped_info, response, updates, base, sold, aux>>

\* main.py 168 and the normal exit of the transaction block: COMMIT, then the
\* 200 response carrying updated_products
Commit(t) ==
    /\ pc[t] = "commit"
    /\ stock' = CommitRows(t)
    /\ base' = [u \in Tasks |->
                  IF u = t THEN CommitRows(t)
                  ELSE [s \in DOMAIN base[u] |-> base[u][s] - Shipped(shipped_info[t], s)]]
    /\ locks' = [locks EXCEPT ![t] = {}]
    /\ writes' = [writes EXCEPT ![t] = <<>>]
    /\ response' = [response EXCEPT ![t] =
                      [status |-> 200, detail |-> "none", body |-> updated_products[t]]]
    /\ pc' = [pc EXCEPT ![t] = "done"]
    /\ sold' = [p \in DOMAIN sold |-> sold[p] + Shipped(shipped_info[t], p)]
    /\ DropFrame(t)
    /\ UNCHANGED <<notices, updates, aux>>

\* an exception leaves the transaction block: ROLLBACK, then the error response
Rollback(t) ==
    /\ pc[t] = "raise"
    /\ stock' = RollbackRows(t)
    /\ locks' = [locks EXCEPT ![t] = {}]
    /\ writes' = [writes EXCEPT ![t] = <<>>]
    /\ response' = [response EXCEPT ![t] =
                      [status |-> StatusOf(err[t]), detail |-> err[t], body |-> <<>>]]
    /\ pc' = [pc EXCEPT ![t] = "done"]
    /\ DropFrame(t)
    /\ UNCHANGED <<notices, updates, base, sold, aux>>

\* a store that never notices a lock wait
WaitsForNothing(t, u) == FALSE

\* t waits for a row lock held by u
WaitsFor(t, u) ==
    /\ t # u
    /\ pc[t] \in {"select", "update"}
    /\ batch[t][idx[t]].productCode \in locks[u]

\* PostgreSQL's deadlock detector: a transaction in a cycle of lock waits gets
\* its statement failed (deadlock_detected), which raises in fetch_one
DeadlockDetected(t) ==
    /\ \E u \in Tasks : WaitsFor(t, u) /\ WaitsFor(u, t)
    /\ err' = [err EXCEPT ![t] = "DeadlockDetected"]
    /\ pc' = [pc EXCEPT ![t] = "raise"]
    /\ UNCHANGED <<stock, locks, writes, user, batch, idx, row, updated_products,
                   shipped_info, response, notices, updates, base, sold, aux>>

Next ==
    \E t \in Tasks :
        \/ decrease_stock(t)
        \/ SelectForUpdate(t)
        \/ Update(t)
        \/ Notify(t)
        \/ Commit(t)
        \/ Rollback(t)
        \/ DeadlockDetected(t)

Spec == Init /\ [][Next]_vars

\* The request task is cancelled while it is suspended in one of the awaits of
\* the transaction block (main.py 151, 158): CancelledError is thrown into the
\* handler at that await and leaves the block like any other exception. No
\* response reaches the caller (status 0).
Cancel(t) ==
    /\ pc[t] \in {"select", "update"}
    /\ err' = [err EXCEPT ![t] = "CancelledError"]
    /\ pc' = [pc EXCEPT ![t] = "raise"]
    /\ UNCHANGED <<stock, locks, writes, user, batch, idx, row, updated_products,
                   shipped_info, response, notices, updates, base, sold, aux>>

CancellableNext == Next \/ \E t \in Tasks : Cancel(t)

Cancellable == Init /\ [][CancellableNext]_vars


\* ---- the GET readers (main.py 70-85), which run outside any transaction

\* a SELECT that also returns the uncommitted row versions of open transactions
DirtyRows ==
    [s \in DOMAIN stock |->
        IF \E t \in Tasks : s \in DOMAIN writes[t]
        THEN writes[CHOOSE t \in Tasks : s \in DOMAIN writes[t]][s]
        ELSE stock[s]]

\* what a plain SELECT outside the transactions returns: the committed rows
ReadRows == stock

\* some open transaction holds a row version the committed rows do not show
UncommittedChange == \E t \in Tasks : \E s \in DOMAIN writes[t] : writes[t][s] # stock[s]

\* main.py 70-75: SELECT id, sku, stock FROM products
get_full_inventory_stock ==
    /\ seen' = ReadRows
    /\ seenSold' = sold
    /\ seenDuring' = UncommittedChange
    /\ UNCHANGED <<stock, locks, writes, pc, user, batch, idx, row, updated_products,
                   shipped_info, err, response, notices, updates, base, sold, added, admin>>

\* main.py 77-85: SELECT .. WHERE sku = ANY(:codes); no row gives a 404
get_stock_for_multiple_products ==
    \E productCodes \in SUBSET Codes \ {{}} :
        /\ seen' = [s \in productCodes \cap DOMAIN ReadRows |-> ReadRows[s]]
        /\ seenSold' = sold
        /\ seenDuring' = UncommittedChange
        /\ UNCHANGED <<stock, locks, writes, pc, user, batch, idx, row, updated_products,
                       shipped_info, err, response, notices, updates, base, sold, added, admin>>

\* batches of entries that name stocked products and positive quantities
ShopItems == [productCode : Products, quantity : 1..MaxQty]
ShopDraws(n) == {<<>>} \cup (IF n < MaxLen THEN {<<i>> : i \in ShopItems} ELSE {})

ShopRequest(t) ==
    \E token \in {TokAdmin, TokUser}, first \in ShopDraws(0) : Request(t, token, first)

ShopUpdate(t) == \E more \in ShopDraws(Len(batch[t])) : UpdateStep(t, more)

ShopNext ==
    \E t \in Tasks :
        \/ ShopRequest(t)
        \/ SelectForUpdate(t)
        \/ ShopUpdate(t)
        \/ Notify(t)
        \/ Commit(t)
        \/ Rollback(t)
        \/ DeadlockDetected(t)

\* the event loop runs every task that can go on, the store executes every
\* statement that does not wait for a lock, and its deadlock detector runs
FairShop ==
    /\ Init
    /\ [][ShopNext]_vars
    /\ \A t \in Tasks :
          /\ WF_vars(SelectForUpdate(t))
          /\ WF_vars(ShopUpdate(t))
          /\ WF_vars(Notify(t))
          /\ WF_vars(Commit(t))
          /\ WF_vars(Rollback(t))
          /\ WF_vars(DeadlockDetected(t))

ReadersNext ==
    \/ ShopNext
    \/ get_full_inventory_stock
    \/ get_stock_for_multiple_products

Readers == Init /\ [][ReadersNext]_vars


\* ---- the administrative handlers (main.py 87-140): every statement runs on
\* ---- its own, outside any transaction (autocommit)

\* python's truth value of a header value
Truthy(key) == key \notin {NoKey, ""}

\* an admin gate that compares the keys without testing the header's truth value
AdminGateKeysEqual(u, override_key) ==
    IF override_key = OVERRIDE_KEY
    THEN [ok |-> TRUE,
          user |-> [user_id |-> "override_admin", email |-> "admin@example.com",
                    role |-> {"admin"}]]
    ELSE IF "admin" \notin u.role THEN [ok |-> FALSE, detail |-> "Atkomst nekad"]
    ELSE [ok |-> TRUE, user |-> u]

\* dependencies.py 42-60: the admin dict, or the 401 it raises
get_current_admin_user(u, override_key) ==
    IF Truthy(override_key) /\ override_key = OVERRIDE_KEY
    THEN [ok |-> TRUE,
          user |-> [user_id |-> "override_admin", email |-> "admin@example.com",
                    role |-> {"admin"}]]
    ELSE IF "admin" \notin u.role THEN [ok |-> FALSE, detail |-> "Atkomst nekad"]
    ELSE [ok |-> TRUE, user |-> u]

\* the caller's token decodes to a role list with "admin", or the caller sent
\* a non-empty X-Override-Key equal to the configured key
Entitled(token, override_key) ==
    \/ /\ token.sig = "ok"
       /\ "role" \in DOMAIN token.payload
       /\ "admin" \in token.payload.role
    \/ /\ override_key \notin {NoKey, ""}
       /\ override_key = OVERRIDE_KEY

\* request bodies of the administrative handlers
ProductCreates == [productCode : Codes, stock : 0..MaxStock]
ProductDeleteRequests == [productCode : Codes]
StockRequests == Items

\* what the iteration over a request list yields after n entries
AdminDraws(entries, n) == {<<>>} \cup (IF n < MaxLen THEN {<<e>> : e \in entries} ELSE {})

\* the entry a handler is at
Current(a) == request[a][1]

\* the handler's frame is gone once the response is out
Respond(a, status, detail) ==
    /\ admin_response' = [admin_response EXCEPT ![a] = [status |-> status, detail |-> detail]]
    /\ admin_pc' = [admin_pc EXCEPT ![a] = "done"]
    /\ admin_row' = [admin_row EXCEPT ![a] = <<>>]
    /\ request' = [request EXCEPT ![a] = <<>>]
    /\ iterated' = [iterated EXCEPT ![a] = 0]

\* the for loop goes on to the entry `more` and the statement `step`
Iterate(a, more, step) ==
    /\ request' = [request EXCEPT ![a] = more]
    /\ iterated' = [iterated EXCEPT ![a] = @ + 1]
    /\ admin_pc' = [admin_pc EXCEPT ![a] = step]
    /\ UNCHANGED <<admin_response, admin_row>>

\* the first statement of a handler
FirstStep(handler) ==
    CASE handler = "create_products" -> "insert"
      [] handler = "delete_products" -> "find"
      [] handler = "increase_stock" -> "select"

\* the status of a handler's normal response (status_code of its decorator)
SuccessStatus(handler) == IF handler = "create_products" THEN 201 ELSE 200

\* a request for an administrative handler arrives: get_current_user, then
\* get_current_admin_user, then the handler starts; with an empty list it
\* returns without a statement
AdminRequest(a, handler, token, override_key, body) ==
    /\ admin_pc[a] = "idle"
    /\ entitled' = [entitled EXCEPT ![a] = Entitled(token, override_key)]
    /\ LET auth == get_current_user(token)
           gate == IF auth.ok THEN get_current_admin_user(auth.user, override_key)
                   ELSE auth
       IN  IF ~gate.ok THEN Respond(a, 401, gate.detail)
           ELSE IF body = <<>> THEN Respond(a, SuccessStatus(handler), "none")
           ELSE Iterate(a, body, FirstStep(handler))
    /\ UNCHANGED <<stock, locks, writes, pc, user, batch, idx, row, updated_products,
                   shipped_info, err, response, notices, updates, base, sold, added,
                   seen, seenSold, seenDuring, OVERRIDE_KEY, changed>>

\* what an administrative statement leaves alone besides the handler's own state
AdminFrame ==
    UNCHANGED <<locks, writes, pc, user, batch, idx, row, updated_products,
                shipped_info, err, response, notices, updates, sold,
                seen, seenSold, seenDuring, OVERRIDE_KEY, entitled>>

\* POST /inventory (main.py 87-101)
create_products(a) ==
    \E token \in Tokens, override_key \in Keys, body \in AdminDraws(ProductCreates, 0) :
        AdminRequest(a, "create_products", token, override_key, body)

\* main.py 94-100: INSERT .. RETURNING of the entry; a second row for a sku
\* violates the unique productCode and raises in fetch_one
Insert(a) ==
    /\ admin_pc[a] = "insert"
    /\ LET product == Current(a) IN
       IF product.productCode \in DOMAIN stock
       THEN /\ Respond(a, 500, "UniqueViolationError")
            /\ UNCHANGED <<stock, changed>>
       ELSE /\ stock' = [s \in DOMAIN stock \cup {product.productCode} |->
                            IF s = product.productCode THEN product.stock ELSE stock[s]]
            /\ changed' = [changed EXCEPT ![a] = @ + 1]
            /\ \E more \in AdminDraws(ProductCreates, iterated[a]) :
                  IF more = <<>> THEN Respond(a, SuccessStatus("create_products"), "none")
                  ELSE Iterate(a, more, "insert")
    /\ UNCHANGED <<base, added>>
    /\ AdminFrame

\* DELETE /inventory (main.py 103-117)
delete_products(a) ==
    \E token \in Tokens, override_key \in Keys, body \in AdminDraws(ProductDeleteRequests, 0) :
        AdminRequest(a, "delete_products", token, override_key, body)

\* main.py 110-113: SELECT of the entry's row, 404 if there is none
Find(a) ==
    /\ admin_pc[a] = "find"
    /\ IF Current(a).productCode \in DOMAIN ReadRows
       THEN /\ admin_pc' = [admin_pc EXCEPT ![a] = "delete"]
            /\ UNCHANGED <<admin_response, admin_row, request, iterated>>
       ELSE Respond(a, 404, "NotFound")
    /\ UNCHANGED <<stock, base, added, changed>>
    /\ AdminFrame

\* main.py 114-116: DELETE of the entry's row, which waits for the row's lock
Delete(a) ==
    /\ admin_pc[a] = "delete"
    /\ LET sku == Current(a).productCode IN
       /\ \A t \in Tasks : sku \notin locks[t]
       /\ stock' = [s \in DOMAIN stock \ {sku} |-> stock[s]]
       /\ changed' = [changed EXCEPT ![a] = IF sku \in DOMAIN stock THEN @ + 1 ELSE @]
    /\ \E more \in AdminDraws(ProductDeleteRequests, iterated[a]) :
          IF more = <<>> THEN Respond(a, SuccessStatus("delete_products"), "none")
          ELSE Iterate(a, more, "find")
    /\ UNCHANGED <<base, added>>
    /\ AdminFrame

\* POST /inventory/increase (main.py 124-128)
increase_stock(a) ==
    \E token \in Tokens, override_key \in Keys, item \in StockRequests :
        AdminRequest(a, "increase_stock", token, override_key, <<item>>)

\* main.py 129-133: the plain SELECT of the row, then the checks
IncreaseSelect(a) ==
    /\ admin_pc[a] = "select"
    /\ LET sku == Current(a).productCode
           r == IF sku \in DOMAIN ReadRows THEN <<ReadRows[sku]>> ELSE <<>>
       IN  IF r = <<>> THEN Respond(a, 404, "NotFound")
           ELSE IF ensure_valid_quantity(Current(a).quantity)
                THEN Respond(a, 400, "InvalidQuantity")
           ELSE /\ admin_row' = [admin_row EXCEPT ![a] = r]
                /\ admin_pc' = [admin_pc EXCEPT ![a] = "update"]
                /\ UNCHANGED <<admin_response, request, iterated>>
    /\ UNCHANGED <<stock, base, added, changed>>
    /\ AdminFrame

\* an UPDATE that writes the stock the handler read plus the quantity
IncreaseFromRead(current, read, quantity) == read + quantity

\* main.py 134-139: UPDATE .. SET stock = stock + :quantity computes the new
\* stock from the row as it is when the statement runs
IncreaseRow(current, read, quantity) == current + quantity

\* main.py 134-140: the UPDATE waits for the row's lock, changes the latest
\* committed row and commits; with the row gone, `updated` is None and
\* updated["sku"] raises TypeError
IncreaseUpdate(a) ==
    /\ admin_pc[a] = "update"
    /\ LET sku == Current(a).productCode
           quantity == Current(a).quantity
       IN  /\ \A t \in Tasks : sku \notin locks[t]
           /\ IF sku \in DOMAIN stock
              THEN /\ stock' = [stock EXCEPT
                                  ![sku] = IncreaseRow(@, admin_row[a][1], quantity)]
                   /\ base' = [t \in Tasks |->
                                 [s \in DOMAIN base[t] |->
                                     IF s = sku THEN base[t][s] + quantity ELSE base[t][s]]]
                   /\ added' = [p \in DOMAIN added |->
                                  IF p = sku THEN added[p] + quantity ELSE added[p]]
                   /\ changed' = [changed EXCEPT ![a] = @ + 1]
                   /\ Respond(a, SuccessStatus("increase_stock"), "none")
              ELSE /\ Respond(a, 500, "TypeError")
                   /\ UNCHANGED <<stock, base, added, changed>>
    /\ AdminFrame

AdminNext ==
    \E a \in Admins :
        \/ create_products(a)
        \/ Insert(a)
        \/ delete_products(a)
        \/ Find(a)
        \/ Delete(a)
        \/ increase_stock(a)
        \/ IncreaseSelect(a)
        \/ IncreaseUpdate(a)

\* the service started with any configuration of OVERRIDE_KEY
AdminInit == Start /\ OVERRIDE_KEY \in ConfiguredKeys

AdminOps == AdminInit /\ [][AdminNext]_vars

\* one batch of the shop and the increases of stocked products by valid
\* quantities that two administrators make meanwhile
ShopIncrease(a) ==
    \E token \in {TokAdmin, TokUser}, item \in ShopItems :
        AdminRequest(a, "increase_stock", token, NoKey, <<item>>)

MixedNext ==
    \/ \E t \in {"t1"} :
          \/ ShopRequest(t)
          \/ SelectForUpdate(t)
          \/ ShopUpdate(t)
          \/ Notify(t)
          \/ Commit(t)
          \/ Rollback(t)
    \/ \E a \in Admins :
          \/ ShopIncrease(a)
          \/ IncreaseSelect(a)
          \/ IncreaseUpdate(a)

Mixed == Init /\ [][MixedNext]_vars

\* ------------------------------------------------------------- properties

EntryErrors == {"NotFound", "InvalidQuantity", "InsufficientStock"}

\* the entry the for loop of t is at
CurrentItem(t) == batch[t][idx[t]]

\* the for loop of t has run through all of request.items
LoopDone(t) == pc[t] \in {"notify", "commit", "raise"} /\ idx[t] > Len(batch[t])

\* t is at an entry whose checks have been made
Checked(t) == pc[t] = "update" \/ (pc[t] = "raise" /\ err[t] \in EntryErrors)

\* C1: a batch in which an entry failed leaves the persisted stock of every
\* product at its pre-batch value (brought forward by what other batches
\* committed meanwhile), both while the failure is on its way out of the
\* transaction block and after the rollback, whatever the batch wrote before
\* the failing entry.
FailedBatchLeavesStock ==
    \A t \in Tasks :
        (err[t] \in EntryErrors \/ response[t].detail \in EntryErrors) => stock = base[t]

\* C1 witness: a batch that wrote an entry, failed at a later one with
\* InsufficientStock and has been rolled back
FailedAfterWrite ==
    \E t \in Tasks :
        /\ pc[t] = "done"
        /\ response[t].detail = "InsufficientStock"
        /\ updates[t] >= 1

\* C3: no observer ever sees a negative stock: neither the committed rows nor
\* the uncommitted row versions a transaction sees of its own writes.
StockNeverNegative ==
    /\ \A s \in DOMAIN stock : stock[s] >= 0
    /\ \A t \in Tasks : \A s \in DOMAIN writes[t] : writes[t][s] >= 0

\* C3 witness: one batch has taken a product's stock to 0 without having
\* committed, while another batch waits at the same row for a positive quantity
ContendedLastUnits ==
    \E t \in Tasks, u \in Tasks :
        /\ t # u
        /\ pc[u] = "select"
        /\ CurrentItem(u).quantity > 0
        /\ CurrentItem(u).productCode \in DOMAIN writes[t]
        /\ writes[t][CurrentItem(u).productCode] = 0

\* ---- the scenario of C2: each task asks for all of product A's stock
TwoBuyersRequest(t) ==
    \E token \in Tokens :
        Request(t, token, <<[productCode |-> "A", quantity |-> InitStock["A"]]>>)

TwoBuyersNext ==
    \E t \in Tasks :
        \/ TwoBuyersRequest(t)
        \/ SelectForUpdate(t)
        \/ UpdateStep(t, <<>>)
        \/ Notify(t)
        \/ Commit(t)
        \/ Rollback(t)

TwoBuyers == Init /\ [][TwoBuyersNext]_vars

\* C2: with stock(A) = N > 0 and two authenticated batches that each ask for N
\* units of A, once both have ended exactly one got the success response, the
\* other failed with InsufficientStock, and stock(A) is 0.
OneBuyerWins ==
    (\A t \in Tasks : pc[t] = "done" /\ response[t].status # 401)
        => /\ stock["A"] = 0
           /\ \E t \in Tasks :
                /\ response[t].status = 200
                /\ \A u \in Tasks \ {t} : response[u].detail = "InsufficientStock"

\* the list decrease_stock is to return for `items` run one after another
\* against the stock st
RECURSIVE Returned(_, _)
Returned(items, st) ==
    IF items = <<>> THEN <<>>
    ELSE LET sku == items[1].productCode
             new == st[sku] - items[1].quantity
         IN  <<[productCode |-> sku, stock |-> new]>>
                 \o Returned(Tail(items), [st EXCEPT ![sku] = new])

\* C4: a batch of one or more entries that have all passed their checks does
\* not fail, whoever the authenticated requester is: it goes on to commit, holding for every product the pre-batch stock minus the
\* quantities asked for it, and returns one Product per entry, in batch order,
\* with the stock left after that entry.
PassedBatchSucceeds ==
    \A t \in Tasks :
        (LoopDone(t) /\ batch[t] # <<>>) =>
            /\ pc[t] # "raise"
            /\ updated_products[t] = Returned(batch[t], base[t])
            /\ \A s \in Products : Visible(t, s) = <<base[t][s] - Shipped(batch[t], s)>>

\* C5: past the notification step of a batch whose entries all passed, the
\* Notifier has been invoked not at all for an "admin" requester, and exactly
\* once, with the batch's (productCode, quantity) pairs in order, for any other.
NotifiedUnlessAdmin ==
    \A t \in Tasks :
        (LoopDone(t) /\ batch[t] # <<>> /\ pc[t] \in {"commit", "raise"}) =>
            notices[t] = IF "admin" \in user[t].role THEN <<>> ELSE <<batch[t]>>

NotifierErrors == {"KeyError", "ConnectionError"}

\* C7: nothing that goes wrong in the notification step fails a batch that has
\* written its decrements: no exception of that step is on its way out of the
\* transaction block, and none is reported to the caller.
NotifierFailureAbsorbed ==
    \A t \in Tasks :
        updates[t] >= 1 =>
            err[t] \notin NotifierErrors /\ response[t].detail \notin NotifierErrors

\* C8: a batch in which an entry failed is on its way to the rollback or has
\* an error response with no list of products, and the Notifier has not been
\* invoked for it.
FailedBatchSilent ==
    \A t \in Tasks :
        /\ err[t] \in EntryErrors => pc[t] = "raise" /\ notices[t] = <<>>
        /\ response[t].detail \in EntryErrors =>
               /\ response[t].status \in {400, 404}
               /\ response[t].body = <<>>
               /\ notices[t] = <<>>

\* C8 witness: a batch of an "admin" requester failed at its second entry
\* after the first was written; the failure is on its way out
AdminBatchFailedLate ==
    \E t \in Tasks :
        /\ pc[t] = "raise"
        /\ err[t] \in EntryErrors
        /\ idx[t] = 2
        /\ "admin" \in user[t].role

\* C9: the checks of an entry use the stock the earlier entries of the same
\* batch left: the row read for the entry holds the pre-batch stock minus the
\* quantities the batch has already taken of that product, InsufficientStock is
\* raised exactly when that is less than the quantity, and the persisted stock
\* stays at its pre-batch value.
ChecksUseRunningStock ==
    \A t \in Tasks :
        (Checked(t) /\ row[t] # <<>>) =>
            LET item == CurrentItem(t) IN
            /\ row[t] = <<base[t][item.productCode]
                            - Shipped(shipped_info[t], item.productCode)>>
            /\ err[t] = "InsufficientStock" => row[t][1] < item.quantity
            /\ pc[t] = "update" => row[t][1] >= item.quantity
            /\ stock = base[t]

\* C9 witness: a batch names a product twice; the second entry alone is
\* covered by the pre-batch stock, yet fails against what the first left
DuplicateFailsOnRunningStock ==
    \E t \in Tasks :
        /\ pc[t] = "raise"
        /\ err[t] = "InsufficientStock"
        /\ idx[t] = 2
        /\ batch[t][1].productCode = batch[t][2].productCode
        /\ batch[t][2].quantity <= base[t][batch[t][2].productCode]
        /\ row[t][1] > 0

\* C10: an entry with quantity <= 0 on an existing product never gets to the
\* UPDATE: the batch is at the UPDATE only for a positive quantity, every
\* entry written had one, and such an entry raises InvalidQuantity with no
\* UPDATE executed for it.
InvalidQuantityNeverWritten ==
    \A t \in Tasks :
        /\ pc[t] = "update" => CurrentItem(t).quantity > 0
        /\ \A i \in 1..Len(shipped_info[t]) : shipped_info[t][i].quantity > 0
        /\ (pc[t] = "raise" /\ err[t] \in EntryErrors /\ row[t] # <<>>
                /\ CurrentItem(t).quantity <= 0)
               => err[t] = "InvalidQuantity" /\ Len(shipped_info[t]) = idx[t] - 1

\* C10 witness: an entry of quantity <= 0 on an existing product has raised
NonPositiveQuantityRaised ==
    \E t \in Tasks :
        /\ pc[t] = "raise"
        /\ err[t] = "InvalidQuantity"
        /\ row[t] # <<>>
        /\ CurrentItem(t).quantity <= 0

\* C11: whatever a reader observes is committed stock: every row in a GET
\* response holds the initial stock minus the quantities of the batches that
\* had committed when it was read, and so does the row a batch reads for an
\* entry, less what that batch itself has taken; nothing written by a batch
\* that has not committed, or that failed, shows in either.
ReadersSeeCommittedOnly ==
    /\ \A p \in DOMAIN seen : seen[p] = InitStock[p] - seenSold[p]
    /\ \A t \in Tasks :
          (Checked(t) /\ row[t] # <<>>) =>
              row[t][1] = InitStock[CurrentItem(t).productCode]
                            - sold[CurrentItem(t).productCode]
                            - Shipped(shipped_info[t], CurrentItem(t).productCode)

\* C11 witness: a GET ran while a batch held an uncommitted decrement, and that
\* batch has since failed and been rolled back
ReadDuringFailedBatch ==
    /\ seenDuring
    /\ seen # <<>>
    /\ \E t \in Tasks : pc[t] = "done" /\ response[t].status \notin {0, 200, 401}
                          /\ updates[t] >= 1

\* C12: no decrement is lost or counted twice: the committed stock of every
\* product is its initial stock minus the quantities of exactly the batches
\* that committed, and the row version an open batch holds is the latest
\* committed stock minus what that batch has taken, as if the batches ran one
\* after another in the order they got the row lock.
NoDecrementLost ==
    /\ \A p \in Products : stock[p] = InitStock[p] - sold[p]
    /\ \A t \in Tasks : \A s \in DOMAIN writes[t] :
          writes[t][s] = stock[s] - Shipped(shipped_info[t], s)

\* C12 witness: both batches committed a decrement of the same product
BothCommittedSameProduct ==
    \E p \in Products :
        \A t \in Tasks :
            /\ response[t].status = 200
            /\ \E i \in 1..Len(response[t].body) : response[t].body[i].productCode = p

FirstFailureSurfaces ==
    \A t \in Tasks :
        /\ (pc[t] = "raise" /\ err[t] \in EntryErrors) =>
              LET item == CurrentItem(t) IN
              /\ idx[t] = Len(batch[t])
              /\ shipped_info[t] = SubSeq(batch[t], 1, idx[t] - 1)
              /\ Len(updated_products[t]) = idx[t] - 1
              /\ (row[t] = <<>>) = (item.productCode \notin DOMAIN stock)
              /\ err[t] = IF row[t] = <<>> THEN "NotFound"
                          ELSE IF item.quantity <= 0 THEN "InvalidQuantity"
                          ELSE "InsufficientStock"
              /\ err[t] = "InsufficientStock" => row[t][1] < item.quantity
        /\ response[t].detail \in EntryErrors =>
              /\ response[t].status = IF response[t].detail = "NotFound" THEN 404 ELSE 400
              /\ response[t].body = <<>>

\* C14 witness: the second entry of a batch names a product without a row and
\* a quantity <= 0, and NotFound is the error raised
SecondEntryNotFoundFirst ==
    \E t \in Tasks :
        /\ pc[t] = "raise"
        /\ err[t] = "NotFound"
        /\ idx[t] = 2
        /\ CurrentItem(t).quantity <= 0

\* C15: a batch cancelled at a suspension point before its commit is rolled
\* back entirely: from the cancellation on, the persisted stock of every
\* product is its pre-batch value (brought forward by what other batches
\* committed meanwhile), none of the batch's writes is kept and the batch has
\* sold nothing.
CancelledBatchRolledBack ==
    \A t \in Tasks :
        /\ err[t] = "CancelledError" => stock = base[t]
        /\ response[t].detail = "CancelledError" =>
              /\ pc[t] = "done"
              /\ stock = base[t]
              /\ writes[t] = <<>>
              /\ locks[t] = {}
              /\ response[t].body = <<>>

\* C15 witness: a batch cancelled after it wrote an entry has been rolled back
CancelledAfterWrite ==
    \E t \in Tasks :
        /\ pc[t] = "done"
        /\ response[t].detail = "CancelledError"
        /\ updates[t] >= 1

\* C16: every operation that changes a product's stock holds the row's
\* exclusive lock from its read of the row to its write, so the row it read
\* is still the row it writes to: a decrease_stock batch at its UPDATE holds
\* the lock and sees the row it fetched, and an increase_stock call at its
\* UPDATE finds the committed row as it fetched it.
ReadToWriteUnderLock ==
    /\ \A t \in Tasks :
          pc[t] = "update" =>
              /\ CurrentItem(t).productCode \in locks[t]
              /\ row[t] = Visible(t, CurrentItem(t).productCode)
    /\ \A a \in Admins :
          admin_pc[a] = "update" =>
              /\ Current(a).productCode \in DOMAIN stock
              /\ admin_row[a] = <<stock[Current(a).productCode]>>

\* C18: the committed stock of every product is its initial stock plus the
\* quantities of the increase_stock calls that returned success minus the
\* quantities of the committed decrease batches, at every moment and so once
\* all operations have finished; an increase_stock call has returned success
\* exactly if it has changed the row once.
StockConserved ==
    /\ \A p \in Products : stock[p] = InitStock[p] + added[p] - sold[p]
    /\ \A a \in Admins :
          admin_pc[a] = "done" =>
              (admin_response[a].status = 200) = (changed[a] = 1)
    /\ \A a \in Admins : changed[a] <= 1

\* C18 witness: a committed batch and two successful increases of the same
\* product have all finished
MixedAllFinished ==
    /\ \A t \in {"t1"} : pc[t] = "done" /\ response[t].status = 200
    /\ \A a \in Admins : admin_pc[a] = "done" /\ admin_response[a].status = 200
    /\ \E p \in Products : sold[p] > 0 /\ added[p] >= 2

\* C17: an administrative handler runs only for a caller whose decoded role
\* list contains "admin" or whose X-Override-Key is non-empty and equal to the
\* configured key: a handler that is past the gate, or that has changed a row,
\* has such a caller, and every other caller has got a 401 and has changed no
\* row.
AdminGateHolds ==
    \A a \in Admins :
        /\ (admin_pc[a] \notin {"idle", "done"} \/ changed[a] > 0) => entitled[a]
        /\ (admin_pc[a] = "done" /\ ~entitled[a]) =>
              /\ admin_response[a].status = 401
              /\ changed[a] = 0

\* C17 witness: with no usable override key configured, one caller has been
\* refused and another has changed a row
RefusedAndAdmitted ==
    \E a \in Admins, b \in Admins :
        /\ OVERRIDE_KEY \in {NoKey, ""}
        /\ admin_pc[a] = "done" /\ ~entitled[a] /\ admin_response[a].status = 401
        /\ changed[b] > 0 /\ stock # InitStock

\* the product codes that occur in the entries of t's batch iterated so far
BatchCodes(t) == {batch[t][i].productCode : i \in DOMAIN batch[t]}

\* C19: no step of a decrease_stock batch creates or deletes a product row;
\* a step changes the committed stock of a product only if it is the commit
\* of a batch in which that product's code occurs, and a batch holds
\* uncommitted row versions only of products whose code occurs in it.
DecreaseFrame ==
    [][ /\ DOMAIN stock' = DOMAIN stock
        /\ \A s \in DOMAIN stock :
              stock'[s] # stock[s] =>
                  \E t \in Tasks :
                      /\ pc[t] = "commit" /\ pc'[t] = "done"
                      /\ s \in BatchCodes(t)
        /\ \A t \in Tasks : DOMAIN writes'[t] \subseteq BatchCodes(t) ]_vars

\* C19 witness: a batch that named only product A has committed, and the row
\* of product B is as it was
OtherProductUntouched ==
    \E t \in Tasks :
        /\ pc[t] = "done"
        /\ response[t].status = 200
        /\ Len(response[t].body) = MaxLen
        /\ stock["A"] < InitStock["A"]
        /\ stock["B"] = InitStock["B"]
        /\ \A u \in Tasks \ {t} : pc[u] = "idle"
====
